---------------------------- MODULE Spec2Model ----------------------------
(***************************************************************************)
(* A model of the server-statistics monitor: the poll loop, the fetcher    *)
(* and the threshold evaluator, in the five variants of the repository:    *)
(*   "main"  src/main.go           HTTP, sleep loop, fail-stop             *)
(*   "p000"  src/unnamed/part_000  HTTP, sleep loop, fail-stop             *)
(*   "p001"  src/unnamed/part_001  HTTP, ticker, reset-and-continue        *)
(*   "p002"  src/unnamed/part_002  raw socket, ticker + context, fail-stop *)
(*   "p003"  src/unnamed/part_003  raw socket, sleep loop, fail-stop       *)
(* Text is a sequence of one-character strings, so that splitting,         *)
(* trimming and number parsing are computed as the code computes them.     *)
(***************************************************************************)
EXTENDS Integers, Sequences, FiniteSets, TLC

VARIABLES
    variant,        \* which program runs
    pc,             \* position of the poll loop: idle, fetching, reporting, done
    errorCount,     \* main: errorCount
    stats,          \* main: stats, the snapshot of the current iteration (or NoStats)
    peer,           \* behaviour of the remote host for the fetch in flight
    tickBuf,        \* ticker variants: ticks buffered in ticker.C (capacity 1)
    ctxDone,        \* part_002: the context is cancelled
    sigpc,          \* part_002: position of the signal goroutine
    out,            \* lines printed since the current fetch started
    hist,           \* outcome of every finished fetch, oldest first
    kinds,          \* failure kinds seen so far
    unableCount,    \* how often "Unable to fetch server statistic" was printed
    evalCount,      \* calls of the evaluator since the current fetch started
    evaluated,      \* the snapshot the evaluator was last called with
    cycles,         \* fetch-evaluate cycles in progress
    waits,          \* wait intervals finished since the last fetch returned
    fetchesAfterCancel, \* part_002: fetches started after the context was cancelled
    given,          \* the answer the remote host gives in this run (NoResp: any answer)
    conns           \* connections (response bodies) the fetcher holds open

vars == <<variant, pc, errorCount, stats, peer, tickBuf, ctxDone, sigpc, out, hist,
          kinds, unableCount, evalCount, evaluated, cycles, waits, fetchesAfterCancel,
          given, conns>>

----------------------------------------------------------------------------
(* Bounds of the model *)

\* fetches per run
MaxTicks == 5

----------------------------------------------------------------------------
(* Program constants *)

maxErrors == 3
\* http.StatusOK
StatusOK == 200

\* The range of uint64, scaled to 24 bits: every number of the inputs is far
\* below it, and a subtraction that wraps around lands just below it.
UintRange == 16777216
\* the range of int64, scaled alike
IntRange == UintRange \div 2

Variants == {"main", "p000", "p001", "p002", "p003"}
TickerVariants == {"p001", "p002"}
SleepVariants == {"main", "p000", "p003"}
RawVariants == {"p002", "p003"}

----------------------------------------------------------------------------
(* Text *)

NL == "\n"
CR == "\r"
SP == " "
Digits == {"0", "1", "2", "3", "4", "5", "6", "7", "8", "9"}

DigitVal(c) ==
    CASE c = "0" -> 0 [] c = "1" -> 1 [] c = "2" -> 2 [] c = "3" -> 3 [] c = "4" -> 4
      [] c = "5" -> 5 [] c = "6" -> 6 [] c = "7" -> 7 [] c = "8" -> 8 [] c = "9" -> 9

DigitChar(d) ==
    CASE d = 0 -> "0" [] d = 1 -> "1" [] d = 2 -> "2" [] d = 3 -> "3" [] d = 4 -> "4"
      [] d = 5 -> "5" [] d = 6 -> "6" [] d = 7 -> "7" [] d = 8 -> "8" [] d = 9 -> "9"

\* the decimal text of a natural number (used to write the inputs)
RECURSIVE Dec(_)
Dec(n) == IF n < 10 THEN <<DigitChar(n)>> ELSE Dec(n \div 10) \o <<DigitChar(n % 10)>>

RECURSIVE Pow10(_)
Pow10(k) == IF k = 0 THEN 1 ELSE 10 * Pow10(k - 1)

\* unicode.IsSpace on the characters of the model's alphabet
IsSpace(c) == c \in {SP, NL, CR, "\t"}

RECURSIVE TrimLeft(_)
TrimLeft(s) == IF s # <<>> /\ IsSpace(Head(s)) THEN TrimLeft(Tail(s)) ELSE s

RECURSIVE TrimRight(_)
TrimRight(s) ==
    IF s # <<>> /\ IsSpace(s[Len(s)]) THEN TrimRight(SubSeq(s, 1, Len(s) - 1)) ELSE s

\* strings.TrimSpace
TrimSpace(s) == TrimRight(TrimLeft(s))

\* index of the first c in s, 0 when there is none
RECURSIVE IndexFrom(_, _, _)
IndexFrom(s, c, i) ==
    IF i > Len(s) THEN 0 ELSE IF s[i] = c THEN i ELSE IndexFrom(s, c, i + 1)

\* strings.Split(s, ","): always at least one field
RECURSIVE Split(_)
Split(s) ==
    LET i == IndexFrom(s, ",", 1)
    IN  IF i = 0 THEN <<s>>
        ELSE <<SubSeq(s, 1, i - 1)>> \o Split(SubSeq(s, i + 1, Len(s)))

\* strings.Contains(s, sub)
Contains(s, sub) ==
    \E i \in 1..(Len(s) - Len(sub) + 1) : SubSeq(s, i, i + Len(sub) - 1) = sub

\* the fields joined by commas (used to write the inputs)
RECURSIVE Join(_)
Join(fs) ==
    IF fs = <<>> THEN <<>>
    ELSE IF Len(fs) = 1 THEN fs[1]
    ELSE fs[1] \o <<",">> \o Join(Tail(fs))

AllDigits(s) == \A i \in 1..Len(s) : s[i] \in Digits

RECURSIVE DigitsVal(_)
DigitsVal(s) ==
    IF s = <<>> THEN 0 ELSE 10 * DigitsVal(SubSeq(s, 1, Len(s) - 1)) + DigitVal(s[Len(s)])

\* strconv.ParseUint(s, 10, 64): digits only, no sign, within the range of uint64
ParseUint(s) ==
    IF s # <<>> /\ AllDigits(s) /\ DigitsVal(s) < UintRange
    THEN [ok |-> TRUE, val |-> DigitsVal(s)]
    ELSE [ok |-> FALSE, val |-> 0]

\* strconv.ParseInt(s, 10, 64): an optional sign, then digits, within the range of int64
ParseInt(s) ==
    LET signed == s # <<>> /\ Head(s) \in {"+", "-"}
        body == IF signed THEN Tail(s) ELSE s
        neg == signed /\ Head(s) = "-"
    IN  IF body # <<>> /\ AllDigits(body)
           /\ (IF neg THEN DigitsVal(body) <= IntRange ELSE DigitsVal(body) < IntRange)
        THEN [ok |-> TRUE, val |-> IF neg THEN 0 - DigitsVal(body) ELSE DigitsVal(body)]
        ELSE [ok |-> FALSE, val |-> 0]

\* strconv.ParseFloat(s, 64) on texts made of a sign, digits and a decimal point
\* (the alphabet of the model has no exponent, hexadecimal, inf or nan text):
\* the value is num / den, exactly.
ParseFloat(s) ==
    LET signed == s # <<>> /\ Head(s) \in {"+", "-"}
        body == IF signed THEN Tail(s) ELSE s
        neg == signed /\ Head(s) = "-"
        dot == IndexFrom(body, ".", 1)
        ip == IF dot = 0 THEN body ELSE SubSeq(body, 1, dot - 1)
        fp == IF dot = 0 THEN <<>> ELSE SubSeq(body, dot + 1, Len(body))
        mag == DigitsVal(ip) * Pow10(Len(fp)) + DigitsVal(fp)
    IN  IF AllDigits(ip) /\ AllDigits(fp) /\ Len(ip) + Len(fp) > 0
        THEN [ok |-> TRUE, num |-> IF neg THEN 0 - mag ELSE mag, den |-> Pow10(Len(fp))]
        ELSE [ok |-> FALSE, num |-> 0, den |-> 1]

----------------------------------------------------------------------------
(* The remote host's answers *)

\* A response: conn = the connection is made, sent = the request is written,
\* answered = the remote host answers at all, status = the status code,
\* hdr = a header line is sent, broken = the connection breaks before the body
\* arrives, body = the payload, character by character.
LineAllHigh == <<Dec(35), Dec(1000), Dec(850), Dec(2000), Dec(1950), Dec(500)>>
LineAllLow == <<Dec(10), Dec(1000), Dec(100), Dec(2000), Dec(100), Dec(500)>>
LineFive == <<Dec(10), Dec(1000), Dec(100), Dec(2000), Dec(100)>>
LineSeven == LineAllLow \o <<Dec(480)>>
LineBadMem == <<Dec(10), <<"x">>, Dec(100), Dec(2000), Dec(100), Dec(500)>>
LineBadLoad == <<<<"1", "x">>, Dec(1000), Dec(100), Dec(2000), Dec(100), Dec(500)>>
LineNegLoad == <<<<"-">> \o Dec(1), Dec(1000), Dec(100), Dec(2000), Dec(100), Dec(500)>>
LineNegMem == <<Dec(10), Dec(1000), <<"-">> \o Dec(5), Dec(2000), Dec(100), Dec(500)>>

Lines == {LineAllHigh, LineAllLow, LineFive, LineSeven, LineBadMem, LineBadLoad,
          LineNegLoad, LineNegMem}

\* every line with and without its final newline, and the empty payload
Bodies == {Join(l) : l \in Lines} \cup {Join(l) \o <<NL>> : l \in Lines} \cup {<<>>}

Response(conn, status, hdr, broken, body) ==
    [conn |-> conn, sent |-> TRUE, answered |-> TRUE, status |-> status, hdr |-> hdr,
     broken |-> broken, body |-> body]

\* the connection is made and writing the request fails
WriteFails == [Response(TRUE, StatusOK, TRUE, FALSE, <<>>) EXCEPT !.sent = FALSE]

\* the remote host accepts the connection and never answers
Silent == [Response(TRUE, StatusOK, TRUE, TRUE, <<>>) EXCEPT !.answered = FALSE]

\* no answer fixed in advance
NoResp == [any |-> TRUE]

Responses ==
    {Response(TRUE, StatusOK, TRUE, FALSE, b) : b \in Bodies}
    \cup {Response(TRUE, StatusOK, FALSE, FALSE, Join(LineAllHigh) \o <<NL>>),
          Response(FALSE, StatusOK, TRUE, FALSE, <<>>),
          WriteFails,
          Response(TRUE, 500, TRUE, FALSE, Join(LineAllLow) \o <<NL>>),
          Response(TRUE, StatusOK, TRUE, TRUE, Join(LineAllLow) \o <<NL>>)}

\* Further lines for the study of the parsers alone: other and unreadable
\* seventh fields, an eighth field, a bandwidth of 0, a space before the newline.
LineSevenOther == LineAllLow \o <<Dec(100)>>
LineSevenBad == LineAllLow \o <<<<"x">>>>
LineEight == LineAllLow \o <<Dec(480), Dec(7)>>
LineHighSeven == LineAllHigh \o <<Dec(480)>>
LineZeroNet == <<Dec(10), Dec(1000), Dec(100), Dec(2000), Dec(100), Dec(0)>>
LineBadSeven == LineBadMem \o <<Dec(480)>>
LineNegNet == <<Dec(10), Dec(1000), Dec(100), Dec(2000), Dec(100), <<"-">> \o Dec(500)>>
LineSevenAt == LineAllLow \o <<Dec(450)>>
LineSevenAbove == LineAllLow \o <<Dec(451)>>
LineSevenZeroUsage == LineAllLow \o <<Dec(0)>>
LineSevenZeroNet == LineZeroNet \o <<Dec(480)>>
LineOverDisk == <<Dec(10), Dec(1000), Dec(100), Dec(2000), Dec(2001), Dec(500)>>
LineSevenOverNet == LineAllLow \o <<Dec(501)>>
MoreLines == {LineSevenOther, LineSevenBad, LineEight, LineHighSeven, LineZeroNet,
              LineBadSeven, LineNegNet, LineSevenAt, LineSevenAbove, LineSevenZeroUsage,
              LineSevenZeroNet, LineOverDisk, LineSevenOverNet}

FetchInputs ==
    Responses
    \cup {Response(TRUE, StatusOK, TRUE, FALSE, Join(l) \o <<NL>>) : l \in MoreLines}
    \cup {Response(TRUE, StatusOK, TRUE, FALSE, Join(LineAllLow) \o <<SP, NL>>)}

\* What a raw-socket client reads until the peer closes the connection.
StatusLine(status) ==
    <<"H", "T", "T", "P", "/", "1", ".", "1", SP>> \o Dec(status)
        \o (IF status = StatusOK THEN <<SP, "O", "K">> ELSE <<SP, "E", "r", "r">>)
        \o <<CR, NL>>

HeaderLine == <<"A", ":", SP, "b", CR, NL>>

Stream(resp) ==
    StatusLine(resp.status) \o (IF resp.hdr THEN HeaderLine ELSE <<>>) \o <<CR, NL>>
        \o (IF resp.broken THEN <<>> ELSE resp.body)

----------------------------------------------------------------------------
(* The fetchers *)

NoStats == [none |-> TRUE]

Failure(kind) == [ok |-> FALSE, kind |-> kind, stats |-> NoStats]
Success(st) == [ok |-> TRUE, kind |-> "none", stats |-> st]

\* a derivation by the reference policy: without a seventh field the usage is
\* taken to be the bandwidth
networkFields_main_reference(n, nb, nu) ==
    IF n >= 7 THEN [NetworkBandwidth |-> nb, NetworkUsage |-> nu]
    ELSE [NetworkBandwidth |-> nb, NetworkUsage |-> nb]

\* src/main.go, fetchServerStats, the network fields of a line of n fields whose
\* sixth field is nb and whose seventh, if there is one, is nu
networkFields_main(n, nb, nu) ==
    IF n >= 7 THEN [NetworkBandwidth |-> nb, NetworkUsage |-> nu]
    ELSE [NetworkBandwidth |-> 0, NetworkUsage |-> 0]

\* src/main.go, fetchServerStats
fetchServerStats_main(resp) ==
    IF ~resp.conn \/ ~resp.sent THEN Failure("conn")
    ELSE IF resp.status # StatusOK THEN Failure("status")
    ELSE IF resp.broken THEN Failure("conn")
    ELSE
      LET values == Split(TrimSpace(resp.body))
      IN  IF Len(values) < 6 THEN Failure("format")
          ELSE
            LET la == ParseFloat(values[1])
                tm == ParseUint(values[2])
                um == ParseUint(values[3])
                td == ParseUint(values[4])
                ud == ParseUint(values[5])
                nb == ParseUint(values[6])
                nu == IF Len(values) >= 7 THEN ParseUint(values[7])
                      ELSE [ok |-> TRUE, val |-> 0]
            IN  IF ~(la.ok /\ tm.ok /\ um.ok /\ td.ok /\ ud.ok /\ nb.ok /\ nu.ok)
                THEN Failure("parse")
                ELSE
                  LET net == networkFields_main(Len(values), nb.val, nu.val)
                  IN  Success([LoadAverage |-> [num |-> la.num, den |-> la.den],
                               TotalMemory |-> tm.val, UsedMemory |-> um.val,
                               TotalDisk |-> td.val, UsedDisk |-> ud.val,
                               NetworkBandwidth |-> net.NetworkBandwidth,
                               NetworkUsage |-> net.NetworkUsage])

\* a parser that also reads a seventh field when there is one
fetchServerStats_p000_readsSeventh(resp) ==
    IF ~resp.conn \/ ~resp.sent THEN Failure("conn")
    ELSE IF resp.status # StatusOK THEN Failure("status")
    ELSE IF resp.broken THEN Failure("conn")
    ELSE
      LET values == Split(TrimSpace(resp.body))
      IN  IF Len(values) < 6 THEN Failure("format")
          ELSE
            LET la == ParseFloat(values[1])
                tm == ParseUint(values[2])
                um == ParseUint(values[3])
                td == ParseUint(values[4])
                ud == ParseUint(values[5])
                nb == ParseUint(values[6])
                nu == IF Len(values) >= 7 THEN ParseUint(values[7])
                      ELSE [ok |-> TRUE, val |-> 0]
            IN  IF ~(la.ok /\ tm.ok /\ um.ok /\ td.ok /\ ud.ok /\ nb.ok /\ nu.ok)
                THEN Failure("parse")
                ELSE Success([LoadAverage |-> [num |-> la.num, den |-> la.den],
                              TotalMemory |-> tm.val, UsedMemory |-> um.val,
                              TotalDisk |-> td.val, UsedDisk |-> ud.val,
                              NetworkBandwidth |-> nb.val])

\* src/unnamed/part_000, fetchServerStats
fetchServerStats_p000(resp) ==
    IF ~resp.conn \/ ~resp.sent THEN Failure("conn")
    ELSE IF resp.status # StatusOK THEN Failure("status")
    ELSE IF resp.broken THEN Failure("conn")
    ELSE
      LET values == Split(TrimSpace(resp.body))
      IN  IF Len(values) < 6 THEN Failure("format")
          ELSE
            LET la == ParseFloat(values[1])
                tm == ParseUint(values[2])
                um == ParseUint(values[3])
                td == ParseUint(values[4])
                ud == ParseUint(values[5])
                nb == ParseUint(values[6])
            IN  IF ~(la.ok /\ tm.ok /\ um.ok /\ td.ok /\ ud.ok /\ nb.ok)
                THEN Failure("parse")
                ELSE Success([LoadAverage |-> [num |-> la.num, den |-> la.den],
                              TotalMemory |-> tm.val, UsedMemory |-> um.val,
                              TotalDisk |-> td.val, UsedDisk |-> ud.val,
                              NetworkBandwidth |-> nb.val])

\* bufio.Scanner with ScanLines: the first line without its end-of-line marker;
\* no line at all when nothing can be read
ScanLine(data) ==
    LET i == IndexFrom(data, NL, 1)
        raw == IF i = 0 THEN data ELSE SubSeq(data, 1, i - 1)
        line == IF raw # <<>> /\ raw[Len(raw)] = CR THEN SubSeq(raw, 1, Len(raw) - 1)
                ELSE raw
    IN  [ok |-> data # <<>>, text |-> line]

\* src/unnamed/part_001, fetchStats
fetchStats_p001(resp) ==
    IF ~resp.conn \/ ~resp.sent THEN Failure("conn")
    ELSE IF resp.status # StatusOK THEN Failure("status")
    ELSE
      LET sc == ScanLine(IF resp.broken THEN <<>> ELSE resp.body)
      IN  IF ~sc.ok THEN Failure(IF resp.broken THEN "conn" ELSE "format")
          ELSE
            LET values == Split(sc.text)
            IN  IF Len(values) # 6 THEN Failure("format")
                ELSE
                  LET la == ParseFloat(values[1])
                      tm == ParseUint(values[2])
                      um == ParseUint(values[3])
                      td == ParseUint(values[4])
                      ud == ParseUint(values[5])
                      tn == ParseUint(values[6])
                  IN  IF ~(la.ok /\ tm.ok /\ um.ok /\ td.ok /\ ud.ok /\ tn.ok)
                      THEN Failure("parse")
                      ELSE Success([LoadAverage |-> [num |-> la.num, den |-> la.den],
                                    TotalMemory |-> tm.val, UsedMemory |-> um.val,
                                    TotalDisk |-> td.val, UsedDisk |-> ud.val,
                                    TotalNetwork |-> tn.val, UsedNetwork |-> tn.val])

\* bufio.Reader.ReadString('\n') on what is left of the stream: the text up to
\* and including the first newline, or an error when the stream ends before one
ReadString(rest) ==
    LET i == IndexFrom(rest, NL, 1)
    IN  IF i = 0 THEN [ok |-> FALSE, text |-> rest, rest |-> <<>>]
        ELSE [ok |-> TRUE, text |-> SubSeq(rest, 1, i), rest |-> SubSeq(rest, i + 1, Len(rest))]

\* the loop that skips the headers: what is left after the blank line
RECURSIVE SkipHeaders(_)
SkipHeaders(rest) ==
    LET r == ReadString(rest)
    IN  IF ~r.ok THEN [ok |-> FALSE, rest |-> <<>>]
        ELSE IF r.text = <<CR, NL>> \/ r.text = <<NL>> THEN [ok |-> TRUE, rest |-> r.rest]
        ELSE SkipHeaders(r.rest)

\* the raw-socket fetcher of part_002 and part_003 (the same text in both)
RawFetch(resp) ==
    IF ~resp.conn THEN Failure("conn")
    ELSE IF ~resp.sent THEN Failure("conn")
    ELSE
      LET st == ReadString(Stream(resp))
      IN  IF ~st.ok THEN Failure("conn")
          ELSE IF ~Contains(st.text, <<"2", "0", "0", SP, "O", "K">>) THEN Failure("status")
          ELSE
            LET hd == SkipHeaders(st.rest)
            IN  IF ~hd.ok THEN Failure("conn")
                ELSE
                  LET bd == ReadString(hd.rest)
                  IN  IF ~bd.ok THEN Failure("conn")
                      ELSE
                        LET values == Split(TrimSpace(bd.text))
                        IN  IF Len(values) # 6 THEN Failure("format")
                            ELSE
                              LET la == ParseFloat(values[1])
                                  tm == ParseInt(values[2])
                                  um == ParseInt(values[3])
                                  td == ParseInt(values[4])
                                  ud == ParseInt(values[5])
                                  tn == ParseInt(values[6])
                              IN  IF ~(la.ok /\ tm.ok /\ um.ok /\ td.ok /\ ud.ok /\ tn.ok)
                                  THEN Failure("parse")
                                  ELSE Success(
                                         [LoadAverage |-> [num |-> la.num, den |-> la.den],
                                          TotalMemory |-> tm.val, UsedMemory |-> um.val,
                                          TotalDisk |-> td.val, UsedDisk |-> ud.val,
                                          TotalNetwork |-> tn.val, UsedNetwork |-> 0])

\* src/unnamed/part_002, fetchServerStats
fetchServerStats_p002(resp) == RawFetch(resp)

\* src/unnamed/part_003, fetchServerStats
fetchServerStats_p003(resp) == RawFetch(resp)

\* the fetcher of each program
Fetch(v, resp) ==
    CASE v = "main" -> fetchServerStats_main(resp)
      [] v = "p000" -> fetchServerStats_p000(resp)
      [] v = "p001" -> fetchStats_p001(resp)
      [] v = "p002" -> fetchServerStats_p002(resp)
      [] v = "p003" -> fetchServerStats_p003(resp)


----------------------------------------------------------------------------
(* The evaluators *)

\* thresholds, as exact fractions
loadThreshold == [num |-> 30, den |-> 1]
memoryUsageThreshold == [num |-> 8, den |-> 10]
diskUsageThreshold == [num |-> 9, den |-> 10]
networkUsageThreshold == [num |-> 9, den |-> 10]
\* part_003: the fixed network usage of the demonstration
demoNetworkUsage == [num |-> 85, den |-> 100]

bytesInMb == 1024 * 1024
\* bytes per second in one megabit per second
bytesInMegabit == 1000000 \div 8

\* a / b > t for b > 0.  The code divides in float64; for the numbers of the
\* model (far below 2^53) the comparison of the quotient is that of the fractions.
RatioAbove(a, b, t) == a * t.den > t.num * b

\* unsigned 64-bit subtraction: wraps around
SubUint(a, b) == (a - b + UintRange) % UintRange

\* signed 64-bit subtraction: wraps around
SubInt(a, b) == ((a - b + IntRange) % UintRange) - IntRange

Abs(n) == IF n < 0 THEN 0 - n ELSE n
Sign(n) == IF n < 0 THEN 0 - 1 ELSE 1

\* math.Round of n / d (d > 0): to the nearest integer, halves away from zero
Round(n, d) == Sign(n) * ((2 * Abs(n) + d) \div (2 * d))

\* n / d (d > 0) printed with %.<dp>f, in units of 10^-dp: to the nearest, halves
\* to even (every number the model prints is an exact binary fraction or has no
\* digit beyond dp, so the decimal text of the float64 is that of the fraction)
Fixed(n, d, dp) ==
    LET m == Abs(n) * Pow10(dp)
        q == m \div d
        r == m % d
    IN  Sign(n) * (IF 2 * r > d \/ (2 * r = d /\ q % 2 = 1) THEN q + 1 ELSE q)

\* a printed line
Line(line, kind, val, dp) == [line |-> line, kind |-> kind, val |-> val, dp |-> dp]

LoadLine(val, dp) == Line("Load Average is too high", "", val, dp)
MemoryLine(val, dp) == Line("Memory usage too high", "", val, dp)
DiskLine(val, dp) == Line("Free disk space is too low", "", val, dp)
NetworkLine(val, dp) == Line("Network bandwidth usage high", "", val, dp)
ErrorLine(kind) == Line("Error fetching stats", kind, 0, 0)
UnableLine == Line("Unable to fetch server statistic", "", 0, 0)
ShutdownLine == Line("Shutting down monitor", "", 0, 0)
SignalLine == Line("Received shutdown signal", "", 0, 0)

\* src/main.go, checkThresholds, the load check
loadWarning_main(st) ==
    IF st.LoadAverage.num * loadThreshold.den > loadThreshold.num * st.LoadAverage.den
    THEN <<LoadLine(Fixed(st.LoadAverage.num, st.LoadAverage.den, 0), 0)>> ELSE <<>>

\* a memory check that fires at the threshold as well as above it
memoryWarning_main_atOrAbove(st) ==
    IF st.TotalMemory > 0
       /\ st.UsedMemory * memoryUsageThreshold.den >= memoryUsageThreshold.num * st.TotalMemory
    THEN <<MemoryLine(Round(st.UsedMemory * 100, st.TotalMemory), 0)>> ELSE <<>>

\* src/main.go, checkThresholds, the memory check
memoryWarning_main(st) ==
    IF st.TotalMemory > 0 /\ RatioAbove(st.UsedMemory, st.TotalMemory, memoryUsageThreshold)
    THEN <<MemoryLine(Round(st.UsedMemory * 100, st.TotalMemory), 0)>> ELSE <<>>

\* a disk check without the guard on the total
diskWarning_main_unguarded(st) ==
    IF RatioAbove(st.UsedDisk, st.TotalDisk, diskUsageThreshold)
    THEN <<DiskLine(Round(SubUint(st.TotalDisk, st.UsedDisk), bytesInMb), 0)>> ELSE <<>>

\* a disk check that skips a snapshot whose used amount is above its total
diskWarning_main_skipsOverfull(st) ==
    IF st.TotalDisk > 0 /\ st.UsedDisk <= st.TotalDisk
       /\ RatioAbove(st.UsedDisk, st.TotalDisk, diskUsageThreshold)
    THEN <<DiskLine(Round(SubUint(st.TotalDisk, st.UsedDisk), bytesInMb), 0)>> ELSE <<>>

\* src/main.go, checkThresholds, the disk check
diskWarning_main(st) ==
    IF st.TotalDisk > 0 /\ RatioAbove(st.UsedDisk, st.TotalDisk, diskUsageThreshold)
    THEN <<DiskLine(Round(SubUint(st.TotalDisk, st.UsedDisk), bytesInMb), 0)>> ELSE <<>>

\* a network check that fires at the threshold as well as above it
networkWarning_main_atOrAbove(st) ==
    IF st.NetworkBandwidth > 0 /\ st.NetworkUsage > 0
       /\ st.NetworkUsage * networkUsageThreshold.den
              >= networkUsageThreshold.num * st.NetworkBandwidth
    THEN <<NetworkLine(Round(SubUint(st.NetworkBandwidth, st.NetworkUsage) * 8, 1000000), 0)>>
    ELSE <<>>

\* src/main.go, checkThresholds, the network check
networkWarning_main(st) ==
    IF st.NetworkBandwidth > 0 /\ st.NetworkUsage > 0
       /\ RatioAbove(st.NetworkUsage, st.NetworkBandwidth, networkUsageThreshold)
    THEN <<NetworkLine(Round(SubUint(st.NetworkBandwidth, st.NetworkUsage) * 8, 1000000), 0)>>
    ELSE <<>>

\* an evaluator that runs the network check first
checkThresholds_main_networkFirst(st) ==
    networkWarning_main(st) \o loadWarning_main(st) \o memoryWarning_main(st)
    \o diskWarning_main(st)

\* src/main.go, checkThresholds: the lines it prints, in order
checkThresholds_main(st) ==
    loadWarning_main(st) \o memoryWarning_main(st) \o diskWarning_main(st)
    \o networkWarning_main(st)

\* src/unnamed/part_000, checkThresholds
checkThresholds_p000(st) ==
    (IF st.LoadAverage.num * loadThreshold.den > loadThreshold.num * st.LoadAverage.den
     THEN <<LoadLine(Fixed(st.LoadAverage.num, st.LoadAverage.den, 0), 0)>> ELSE <<>>)
    \o (IF st.TotalMemory > 0 /\ RatioAbove(st.UsedMemory, st.TotalMemory, memoryUsageThreshold)
        THEN <<MemoryLine(Fixed(st.UsedMemory * 100, st.TotalMemory, 0), 0)>> ELSE <<>>)
    \o (IF st.TotalDisk > 0 /\ RatioAbove(st.UsedDisk, st.TotalDisk, diskUsageThreshold)
        THEN <<DiskLine(Fixed(SubUint(st.TotalDisk, st.UsedDisk), bytesInMb, 0), 0)>> ELSE <<>>)
    \o (IF st.NetworkBandwidth > 0
           /\ RatioAbove(st.UsedMemory, st.NetworkBandwidth, networkUsageThreshold)
        THEN <<NetworkLine(Fixed(SubUint(st.NetworkBandwidth, st.UsedMemory) * 8, 1000000, 0), 0)>>
        ELSE <<>>)

\* src/unnamed/part_001, checkMetrics
checkMetrics_p001(st) ==
    (IF st.LoadAverage.num * loadThreshold.den > loadThreshold.num * st.LoadAverage.den
     THEN <<LoadLine(Fixed(st.LoadAverage.num, st.LoadAverage.den, 2), 2)>> ELSE <<>>)
    \o (IF st.TotalMemory > 0 /\ RatioAbove(st.UsedMemory, st.TotalMemory, memoryUsageThreshold)
        THEN <<MemoryLine(Fixed(st.UsedMemory * 100, st.TotalMemory, 1), 1)>> ELSE <<>>)
    \o (IF st.TotalDisk > 0 /\ RatioAbove(st.UsedDisk, st.TotalDisk, diskUsageThreshold)
        THEN <<DiskLine(Fixed(SubUint(st.TotalDisk, st.UsedDisk), bytesInMb, 0), 0)>> ELSE <<>>)
    \o (IF st.TotalNetwork > 0
           /\ RatioAbove(st.UsedNetwork, st.TotalNetwork, networkUsageThreshold)
        THEN <<NetworkLine(Fixed(SubUint(st.TotalNetwork, st.UsedNetwork), bytesInMegabit, 1), 1)>>
        ELSE <<>>)

\* src/unnamed/part_002, checkThresholds
checkThresholds_p002(st) ==
    (IF st.LoadAverage.num * loadThreshold.den > loadThreshold.num * st.LoadAverage.den
     THEN <<LoadLine(Fixed(st.LoadAverage.num, st.LoadAverage.den, 2), 2)>> ELSE <<>>)
    \o (IF st.TotalMemory > 0 /\ RatioAbove(st.UsedMemory, st.TotalMemory, memoryUsageThreshold)
        THEN <<MemoryLine(Fixed(st.UsedMemory * 100, st.TotalMemory, 1), 1)>> ELSE <<>>)
    \o (IF st.TotalDisk > 0 /\ RatioAbove(st.UsedDisk, st.TotalDisk, diskUsageThreshold)
        THEN <<DiskLine(Fixed(SubInt(st.TotalDisk, st.UsedDisk), bytesInMb, 1), 1)>> ELSE <<>>)
    \o (IF st.TotalNetwork > 0 /\ st.UsedNetwork > 0
           /\ RatioAbove(st.UsedNetwork, st.TotalNetwork, networkUsageThreshold)
        THEN <<NetworkLine(Fixed(SubInt(st.TotalNetwork, st.UsedNetwork), bytesInMegabit, 1), 1)>>
        ELSE <<>>)

\* src/unnamed/part_003, checkThresholds: the network usage is the fixed 0.85
checkThresholds_p003(st) ==
    (IF st.LoadAverage.num * loadThreshold.den > loadThreshold.num * st.LoadAverage.den
     THEN <<LoadLine(Fixed(st.LoadAverage.num, st.LoadAverage.den, 2), 2)>> ELSE <<>>)
    \o (IF st.TotalMemory > 0 /\ RatioAbove(st.UsedMemory, st.TotalMemory, memoryUsageThreshold)
        THEN <<MemoryLine(Fixed(st.UsedMemory * 100, st.TotalMemory, 1), 1)>> ELSE <<>>)
    \o (IF st.TotalDisk > 0 /\ RatioAbove(st.UsedDisk, st.TotalDisk, diskUsageThreshold)
        THEN <<DiskLine(Fixed(SubInt(st.TotalDisk, st.UsedDisk), bytesInMb, 1), 1)>> ELSE <<>>)
    \o (IF st.TotalNetwork > 0
           /\ RatioAbove(demoNetworkUsage.num, demoNetworkUsage.den, networkUsageThreshold)
        THEN <<NetworkLine(
                 Fixed(SubInt(st.TotalNetwork,
                              (st.TotalNetwork * demoNetworkUsage.num) \div demoNetworkUsage.den),
                       bytesInMegabit, 1), 1)>>
        ELSE <<>>)

\* the evaluator of each program
Evaluate(v, st) ==
    CASE v = "main" -> checkThresholds_main(st)
      [] v = "p000" -> checkThresholds_p000(st)
      [] v = "p001" -> checkMetrics_p001(st)
      [] v = "p002" -> checkThresholds_p002(st)
      [] v = "p003" -> checkThresholds_p003(st)


----------------------------------------------------------------------------
(* The poll loop *)

\* Whether a fetch is bounded by a timeout: an http.Client with Timeout
\* (main.go, part_000), a dial timeout and a read deadline (part_002, part_003);
\* part_001 calls http.Get, whose default client has none.
HasTimeout(v) == v # "p001"

\* a loop that dispatches a fetch on every tick, whatever it is doing
CanStartFetch_anytime(p) == p # "done"

\* The loop starts a fetch only from its wait (the sleep has ended, or the
\* select has received a tick): p is the position of the loop.
CanStartFetch(p) == p = "idle"

\* What the error branch of the loop does with the counter at ec:
\* the counter, where the loop goes, and the lines printed.
Branch(ec, to, lines) == [errorCount |-> ec, pc |-> to, lines |-> lines]

\* an error branch that counts connection errors only
mainError_main_countsConnOnly(ec, kind) ==
    LET n == IF kind = "conn" THEN ec + 1 ELSE ec
    IN  IF n >= maxErrors
        THEN Branch(n, "done", <<ErrorLine(kind), UnableLine>>)
        ELSE Branch(n, "idle", <<ErrorLine(kind)>>)

\* an error branch that announces the ceiling and polls on
mainError_main_noStop(ec, kind) ==
    IF ec + 1 >= maxErrors
    THEN Branch(ec + 1, "idle", <<ErrorLine(kind), UnableLine>>)
    ELSE Branch(ec + 1, "idle", <<ErrorLine(kind)>>)

\* an error branch that reports nothing below the ceiling
mainError_main_silent(ec, kind) ==
    IF ec + 1 >= maxErrors
    THEN Branch(ec + 1, "done", <<UnableLine>>)
    ELSE Branch(ec + 1, "idle", <<>>)

\* an error branch in which an unparsable field ends the run at once
mainError_main_parseFatal(ec, kind) ==
    IF ec + 1 >= maxErrors \/ kind = "parse"
    THEN Branch(ec + 1, "done", <<ErrorLine(kind), UnableLine>>)
    ELSE Branch(ec + 1, "idle", <<ErrorLine(kind)>>)

\* an error branch that fetches again without sleeping
mainError_main_noSleep(ec, kind) ==
    IF ec + 1 >= maxErrors
    THEN Branch(ec + 1, "done", <<ErrorLine(kind), UnableLine>>)
    ELSE Branch(ec + 1, "fetching", <<ErrorLine(kind)>>)

\* src/main.go, main: the branch err != nil
mainError_main(ec, kind) ==
    IF ec + 1 >= maxErrors
    THEN Branch(ec + 1, "done", <<ErrorLine(kind), UnableLine>>)
    ELSE Branch(ec + 1, "idle", <<ErrorLine(kind)>>)

\* src/unnamed/part_000, main: the branch err != nil
mainError_p000(ec, kind) ==
    IF ec + 1 >= maxErrors
    THEN Branch(ec + 1, "done", <<ErrorLine(kind), UnableLine>>)
    ELSE Branch(ec + 1, "idle", <<ErrorLine(kind)>>)

\* an error branch that announces the ceiling without resetting the counter
mainError_p001_noReset(ec, kind) ==
    IF ec + 1 >= maxErrors
    THEN Branch(ec + 1, "idle", <<ErrorLine(kind), UnableLine>>)
    ELSE Branch(ec + 1, "idle", <<ErrorLine(kind)>>)

\* src/unnamed/part_001, main: the branch err != nil resets the counter and goes on
mainError_p001(ec, kind) ==
    IF ec + 1 >= maxErrors
    THEN Branch(0, "idle", <<ErrorLine(kind), UnableLine>>)
    ELSE Branch(ec + 1, "idle", <<ErrorLine(kind)>>)

\* src/unnamed/part_002, main: the branch err != nil
mainError_p002(ec, kind) ==
    IF ec + 1 >= maxErrors
    THEN Branch(ec + 1, "done", <<ErrorLine(kind), UnableLine>>)
    ELSE Branch(ec + 1, "idle", <<ErrorLine(kind)>>)

\* src/unnamed/part_003, main: the branch err != nil
mainError_p003(ec, kind) ==
    IF ec + 1 >= maxErrors
    THEN Branch(ec + 1, "done", <<ErrorLine(kind), UnableLine>>)
    ELSE Branch(ec + 1, "idle", <<ErrorLine(kind)>>)

OnError(v, ec, kind) ==
    CASE v = "main" -> mainError_main(ec, kind)
      [] v = "p000" -> mainError_p000(ec, kind)
      [] v = "p001" -> mainError_p001(ec, kind)
      [] v = "p002" -> mainError_p002(ec, kind)
      [] v = "p003" -> mainError_p003(ec, kind)

\* a success branch that announces the recovery from earlier failures
mainSuccess_announcesRecovery(ec) ==
    Branch(0, "reporting", IF ec > 0 THEN <<Line("Recovered", "", ec, 0)>> ELSE <<>>)

\* a success branch that leaves the counter as it is
mainSuccess_noReset(ec) == Branch(ec, "reporting", <<>>)

\* src/main.go, main: after a successful fetch the counter is reset and the
\* evaluator is called (the same two statements in every variant)
mainSuccess(ec) == Branch(0, "reporting", <<>>)

\* the remote host answers, or accepts the connection and stays silent
PeerBehaviours == {"answers", "silent"}

\* The HTTP fetchers: client.Get takes a connection from the idle pool of the
\* default transport, or dials one, and hands out the response body; the deferred
\* resp.Body.Close() gives the connection back to the pool, where it stays open
\* for the next call unless the remote host or the transport closes it. A call
\* that gets no response, or whose connection breaks, leaves none open.
ConnsAfter_http(resp) ==
    IF resp.conn /\ resp.sent /\ resp.answered /\ ~resp.broken THEN {0, 1} ELSE {0}

\* The raw-socket fetchers hold a connection of their own once the dial has
\* succeeded, and close it by a deferred conn.Close() on every return after that.
ConnsAfter_raw(resp, c) ==
    LET opened == IF resp.conn THEN 1 ELSE 0
        closed == IF resp.conn THEN 1 ELSE 0
    IN  {c + opened - closed}

\* the connections that can be open when a call of the fetcher that met resp returns
ConnsAfter(v, resp, c) ==
    IF v \in RawVariants THEN ConnsAfter_raw(resp, c) ELSE ConnsAfter_http(resp)

\* a fetch starts: the call of the fetcher at the top of the loop body
BeginFetch ==
    /\ pc' = "fetching"
    /\ peer' \in PeerBehaviours
    /\ out' = <<>>
    /\ evalCount' = 0
    /\ cycles' = cycles + 1
    /\ fetchesAfterCancel' = IF ctxDone THEN fetchesAfterCancel + 1 ELSE fetchesAfterCancel

\* time.Sleep returns and the loop iterates (main.go, part_000, part_003)
SleepDone ==
    /\ variant \in SleepVariants
    /\ CanStartFetch(pc)
    /\ Len(hist) < MaxTicks
    /\ BeginFetch
    /\ waits' = waits + 1
    /\ UNCHANGED <<variant, errorCount, stats, tickBuf, ctxDone, sigpc, hist, kinds,
                   unableCount, evaluated, given, conns>>

\* the ticker sends a tick; ticker.C holds one tick, further ones are dropped
TickerFire ==
    /\ variant \in TickerVariants
    /\ pc # "done"
    /\ tickBuf = 0
    /\ tickBuf' = 1
    /\ UNCHANGED <<variant, pc, errorCount, stats, peer, ctxDone, sigpc, out, hist, kinds,
                   unableCount, evalCount, evaluated, cycles, waits, fetchesAfterCancel,
                   given, conns>>

\* select receives from ticker.C (part_001, part_002)
TakeTick ==
    /\ variant \in TickerVariants
    /\ CanStartFetch(pc)
    /\ tickBuf = 1
    /\ Len(hist) < MaxTicks
    /\ BeginFetch
    /\ tickBuf' = 0
    /\ waits' = waits + 1
    /\ UNCHANGED <<variant, errorCount, stats, ctxDone, sigpc, hist, kinds,
                   unableCount, evaluated, given, conns>>

\* the loop body from the return of the fetcher: the error branch as a whole,
\* or the reset of the counter before the evaluator is called
Returned(r) ==
    LET b == IF r.ok THEN mainSuccess(errorCount) ELSE OnError(variant, errorCount, r.kind)
    IN  /\ pc' = b.pc
        /\ errorCount' = b.errorCount
        /\ out' = out \o b.lines
        /\ stats' = r.stats
        /\ peer' = "none"
        /\ hist' = Append(hist, r.ok)
        /\ kinds' = IF r.ok THEN kinds ELSE kinds \cup {r.kind}
        /\ unableCount' = unableCount + Len(SelectSeq(b.lines, LAMBDA l : l = UnableLine))
        /\ cycles' = IF r.ok THEN cycles ELSE cycles - 1
        /\ waits' = 0
        /\ UNCHANGED <<variant, tickBuf, ctxDone, sigpc, evalCount, evaluated,
                       fetchesAfterCancel, given>>

\* the fetcher returns what the remote host answered
FetchAnswered ==
    /\ pc = "fetching"
    /\ peer = "answers"
    /\ \E resp \in (IF given = NoResp THEN Responses ELSE {given}) :
          /\ Returned(Fetch(variant, resp))
          /\ conns' \in ConnsAfter(variant, resp, conns)

\* the remote host stays silent: the fetcher returns when its timeout expires
FetchTimedOut ==
    /\ pc = "fetching"
    /\ peer = "silent"
    /\ HasTimeout(variant)
    /\ Returned(Failure("conn"))
    /\ conns' \in ConnsAfter(variant, Silent, conns)

\* the evaluator runs on the snapshot of this iteration and prints its warnings
Report ==
    /\ pc = "reporting"
    /\ pc' = "idle"
    /\ out' = out \o Evaluate(variant, stats)
    /\ evalCount' = evalCount + 1
    /\ evaluated' = stats
    /\ cycles' = cycles - 1
    /\ UNCHANGED <<variant, errorCount, stats, peer, tickBuf, ctxDone, sigpc, hist, kinds,
                   unableCount, waits, fetchesAfterCancel, given, conns>>

\* part_002, the signal goroutine: a signal arrives on sigCh and is announced
SigReceive ==
    /\ variant = "p002"
    /\ pc # "done"
    /\ sigpc = "wait"
    /\ sigpc' = "received"
    /\ out' = Append(out, SignalLine)
    /\ UNCHANGED <<variant, pc, errorCount, stats, peer, tickBuf, ctxDone, hist, kinds,
                   unableCount, evalCount, evaluated, cycles, waits, fetchesAfterCancel,
                   given, conns>>

\* part_002, the signal goroutine: cancel()
SigCancel ==
    /\ variant = "p002"
    /\ pc # "done"
    /\ sigpc = "received"
    /\ sigpc' = "exit"
    /\ ctxDone' = TRUE
    /\ UNCHANGED <<variant, pc, errorCount, stats, peer, tickBuf, out, hist, kinds,
                   unableCount, evalCount, evaluated, cycles, waits, fetchesAfterCancel,
                   given, conns>>

\* part_002: select receives from ctx.Done() and main returns
Shutdown ==
    /\ variant = "p002"
    /\ pc = "idle"
    /\ ctxDone
    /\ pc' = "done"
    /\ out' = Append(out, ShutdownLine)
    /\ UNCHANGED <<variant, errorCount, stats, peer, tickBuf, ctxDone, sigpc, hist, kinds,
                   unableCount, evalCount, evaluated, cycles, waits, fetchesAfterCancel,
                   given, conns>>

\* The sleep loops call the fetcher at once; the ticker loops wait for a tick.
Init ==
    /\ variant \in Variants
    /\ pc = IF variant \in SleepVariants THEN "fetching" ELSE "idle"
    /\ peer \in (IF variant \in SleepVariants THEN PeerBehaviours ELSE {"none"})
    /\ cycles = IF variant \in SleepVariants THEN 1 ELSE 0
    /\ errorCount = 0
    /\ stats = NoStats
    /\ tickBuf = 0
    /\ ctxDone = FALSE
    /\ sigpc = IF variant = "p002" THEN "wait" ELSE "none"
    /\ out = <<>>
    /\ hist = <<>>
    /\ kinds = {}
    /\ unableCount = 0
    /\ evalCount = 0
    /\ evaluated = NoStats
    /\ waits = 0
    /\ fetchesAfterCancel = 0
    /\ given = NoResp
    /\ conns = 0

Next ==
    \/ SleepDone
    \/ TickerFire
    \/ TakeTick
    \/ FetchAnswered
    \/ FetchTimedOut
    \/ Report
    \/ SigReceive
    \/ SigCancel
    \/ Shutdown

Spec == Init /\ [][Next]_vars

\* The scheduler runs the loop and the goroutine, time passes, and a remote
\* host that answers does answer.
FairSpec ==
    /\ Spec
    /\ WF_vars(FetchAnswered)
    /\ WF_vars(FetchTimedOut)
    /\ WF_vars(Report)
    /\ WF_vars(SigCancel)
    /\ WF_vars(Shutdown)

\* Snapshots handed to the evaluator of src/main.go: every metric below, at and
\* just above its threshold, a total of 0, and a used amount above its total.
\* Each is the snapshot of a seven-field line that the fetcher accepts.
EvalLoads == {[num |-> ParseFloat(t).num, den |-> ParseFloat(t).den] :
                t \in {Dec(10), Dec(30), Dec(30) \o <<".">> \o Dec(5), Dec(35)}}

Snapshots ==
    [LoadAverage : EvalLoads,
     TotalMemory : {0, 1000}, UsedMemory : {100, 800, 801, 1001},
     TotalDisk : {0, 2000}, UsedDisk : {100, 1800, 1801, 2001},
     NetworkBandwidth : {0, 500}, NetworkUsage : {0, 450, 451, 501}]

\* a successful fetch of src/main.go has just returned one of the snapshots
EvalInit ==
    /\ variant = "main"
    /\ pc = "reporting"
    /\ peer = "none"
    /\ cycles = 1
    /\ errorCount = 0
    /\ stats \in Snapshots
    /\ tickBuf = 0
    /\ ctxDone = FALSE
    /\ sigpc = "none"
    /\ out = <<>>
    /\ hist = <<TRUE>>
    /\ kinds = {}
    /\ unableCount = 0
    /\ evalCount = 0
    /\ evaluated = NoStats
    /\ waits = 0
    /\ fetchesAfterCancel = 0
    /\ given = NoResp
    /\ conns = 0

EvalNext == Report

\* one evaluation of one snapshot
EvalSpec == EvalInit /\ [][EvalNext]_vars

\* a fetch is in flight and the answer the remote host gives is known
FetchInit ==
    /\ variant \in Variants
    /\ pc = "fetching"
    /\ peer = "answers"
    /\ cycles = 1
    /\ errorCount = 0
    /\ stats = NoStats
    /\ tickBuf = 0
    /\ ctxDone = FALSE
    /\ sigpc = IF variant = "p002" THEN "wait" ELSE "none"
    /\ out = <<>>
    /\ hist = <<>>
    /\ kinds = {}
    /\ unableCount = 0
    /\ evalCount = 0
    /\ evaluated = NoStats
    /\ waits = 0
    /\ fetchesAfterCancel = 0
    /\ given \in FetchInputs
    /\ conns = 0

FetchNext ==
    \/ FetchAnswered
    \/ Report

\* one poll: the fetch of one known answer, and the evaluation if it succeeds
FetchSpec == FetchInit /\ [][FetchNext]_vars


----------------------------------------------------------------------------
(* Properties of the poll loop *)

FailureKinds == {"conn", "status", "format", "parse"}

Last(h) == h[Len(h)]

\* the number of failures at the end of h, since the most recent success
RECURSIVE TrailingFails(_)
TrailingFails(h) ==
    IF h = <<>> \/ Last(h) THEN 0 ELSE 1 + TrailingFails(SubSeq(h, 1, Len(h) - 1))

\* the sum of floor(k / 3) over the maximal runs of k failures of h; run is the
\* length of the run that is open at the head of h
RECURSIVE CeilingsReached(_, _)
CeilingsReached(h, run) ==
    IF h = <<>> THEN run \div maxErrors
    ELSE IF Head(h) THEN (run \div maxErrors) + CeilingsReached(Tail(h), 0)
    ELSE CeilingsReached(Tail(h), run + 1)

\* three failures in a row end at position i of h
ThreeFailuresAt(h, i) == i >= 3 /\ ~h[i - 2] /\ ~h[i - 1] /\ ~h[i]

HasErrorLine(o) == \E i \in 1..Len(o) : o[i].line = "Error fetching stats"

\* C1: in main.go the error counter is the number of fetch failures since the
\* most recent success (since the start when there was none), and is within 0..3.
C1_CounterCountsFailures ==
    variant = "main" =>
        /\ errorCount = TrailingFails(hist)
        /\ errorCount \in 0..maxErrors

\* two failures counted after an earlier success reset the counter
C1_Witness ==
    /\ variant = "main"
    /\ hist = <<FALSE, TRUE, FALSE, FALSE>>
    /\ errorCount = 2

\* C2: in main.go the loop has ended exactly when the last three fetches failed;
\* then the message was printed once, as the last line, and no fetch followed;
\* while the loop runs the message was never printed.
C2_FailStop ==
    variant = "main" =>
        /\ pc = "done" <=> TrailingFails(hist) >= maxErrors
        /\ unableCount = IF pc = "done" THEN 1 ELSE 0
        /\ pc = "done" => /\ Last(out) = UnableLine
                          /\ peer = "none"
                          /\ cycles = 0
        /\ \A i \in 1..Len(hist) : ThreeFailuresAt(hist, i) => i = Len(hist)
        /\ \A i \in 1..Len(out) : out[i] = UnableLine => pc = "done"

\* the run ended on three failures in a row, after failures a success had separated
C2_Witness ==
    /\ variant = "main"
    /\ pc = "done"
    /\ hist = <<FALSE, TRUE, FALSE, FALSE, FALSE>>
    /\ unableCount = 1

\* C3: in part_001 errors never end the loop; the counter is the number of
\* failures since the last success modulo 3, at most 2 whenever the loop waits;
\* the message was printed once for every third failure of a run (floor(k/3)
\* times for a run of k failures).
C3_ResetAndContinue ==
    variant = "p001" =>
        /\ pc # "done"
        /\ pc = "idle" => errorCount <= maxErrors - 1
        /\ errorCount = TrailingFails(hist) % maxErrors
        /\ unableCount = CeilingsReached(hist, 0)
        /\ (pc = "idle" /\ ThreeFailuresAt(hist, Len(hist)) /\ TrailingFails(hist) % maxErrors = 0)
               => /\ errorCount = 0
                  /\ Len(SelectSeq(out, LAMBDA l : l = UnableLine)) = 1

\* polling went on after the ceiling: a fourth failure in a row, counted as 1
C3_Witness ==
    /\ variant = "p001"
    /\ hist = <<FALSE, FALSE, FALSE, FALSE>>
    /\ unableCount = 1
    /\ errorCount = 1
    /\ pc = "idle"

\* C4: once a fetch has failed, whatever the kind, an "Error fetching stats"
\* line is printed before the next fetch starts or the process exits.
C4_FailureIsReported ==
    (hist # <<>> /\ ~Last(hist) /\ pc # "fetching") => HasErrorLine(out)

\* failures of all four kinds have happened and the last one was reported
C4_Witness ==
    /\ kinds = FailureKinds
    /\ ~Last(hist)
    /\ pc = "idle"
    /\ HasErrorLine(out)

\* C5: in main.go a fetch that fails, whatever the kind, adds one to the counter
\* and prints one error line; with the counter below 2 that is all and the loop
\* goes back to its wait; the run ends only with the counter at 3.
C5_FailuresAreRecoverable ==
    [][(variant = "main" /\ pc = "fetching" /\ hist' # hist /\ ~Last(hist')) =>
          /\ errorCount' = errorCount + 1
          /\ \E k \in FailureKinds : SubSeq(out', 1, Len(out) + 1) = out \o <<ErrorLine(k)>>
          /\ errorCount < maxErrors - 1 => pc' = "idle" /\ Len(out') = Len(out) + 1
          /\ pc' = "done" <=> errorCount' = maxErrors
          /\ pc' \in {"idle", "done"}]_vars

\* main.go has met all four kinds of failure and is waiting to fetch again
C5_Witness ==
    /\ variant = "main"
    /\ kinds = FailureKinds
    /\ pc = "idle"
    /\ errorCount = 2

\* C6: in main.go the evaluator is about to run only after a successful fetch and
\* with the counter already reset; once the tick is over it has run exactly once,
\* on the snapshot of that fetch, if the fetch succeeded, and not at all if it failed.
C6_EvaluateAfterReset ==
    variant = "main" =>
        /\ pc = "reporting" =>
              /\ errorCount = 0
              /\ Last(hist)
              /\ stats # NoStats
              /\ evalCount = 0
        /\ (pc \in {"idle", "done"} /\ hist # <<>>) =>
              IF Last(hist) THEN evalCount = 1 /\ evaluated = stats /\ errorCount = 0
              ELSE evalCount = 0 /\ stats = NoStats

\* a success after a failure: the counter is back at zero, the evaluator has run once
C6_Witness ==
    /\ variant = "main"
    /\ hist = <<FALSE, TRUE>>
    /\ pc = "idle"
    /\ evalCount = 1
    /\ evaluated = stats
    /\ errorCount = 0

\* C7: the loop of main.go steps only Idle -> Fetching, Fetching -> Reporting (the
\* fetch succeeded), Fetching -> Idle (it failed) and Reporting -> Idle, and ends
\* only out of Fetching; every fetch but the first starts after exactly one wait.
C7_LoopTransitions ==
    [][variant = "main" =>
          /\ (pc' # pc) => <<pc, pc'>> \in {<<"idle", "fetching">>, <<"fetching", "reporting">>,
                                            <<"fetching", "idle">>, <<"reporting", "idle">>,
                                            <<"fetching", "done">>}
          /\ (pc = "fetching" /\ hist' # hist) =>
                IF Last(hist') THEN pc' = "reporting" ELSE pc' \in {"idle", "done"}
          /\ pc = "reporting" => pc' = "idle"
          /\ pc' = "reporting" => pc = "fetching" /\ Last(hist')
          /\ (pc' = "fetching" /\ pc # "fetching") => pc = "idle" /\ waits' = 1
          /\ pc = "done" => pc' = "done"]_vars

\* a fetch is in flight after a success and a failure, one wait after the failure
C7_Witness ==
    /\ variant = "main"
    /\ hist = <<TRUE, FALSE>>
    /\ pc = "fetching"
    /\ waits = 1

\* C8: at most one fetch-evaluate cycle is in progress, in every variant: one
\* while the loop is fetching or reporting, none otherwise.
C8_OneCycleAtATime ==
    /\ cycles \in {0, 1}
    /\ cycles = 1 <=> pc \in {"fetching", "reporting"}

\* part_002: a tick is buffered and the signal goroutine has woken while the
\* loop is still reporting
C8_Witness ==
    /\ variant = "p002"
    /\ pc = "reporting"
    /\ tickBuf = 1
    /\ sigpc = "received"
    /\ cycles = 1

\* C9: in part_002, once the context is cancelled the loop starts at most one
\* further fetch, and when it has returned its last line is "Shutting down monitor".
C9_PromptShutdown ==
    (variant = "p002" /\ ctxDone) =>
        /\ fetchesAfterCancel <= 1
        /\ pc = "done" => Last(out) = ShutdownLine

\* C10: every call of the fetcher returns: a loop that is fetching eventually is not.
C10_FetchReturns == (pc = "fetching") ~> (pc # "fetching")

\* The warnings of the four metrics, as the texts they start with
WarningTexts ==
    <<"Load Average is too high", "Memory usage too high",
      "Free disk space is too low", "Network bandwidth usage high">>

\* the place of a warning in the order load, memory, disk, network (0: no warning)
Rank(l) == IF \E i \in 1..4 : WarningTexts[i] = l.line
           THEN CHOOSE i \in 1..4 : WarningTexts[i] = l.line ELSE 0

\* o holds a warning of the metric at place m
Warns(o, m) == \E i \in 1..Len(o) : Rank(o[i]) = m

\* the evaluation of the snapshot in stats is done and out holds what it printed
Evaluated == pc = "idle" /\ evalCount = 1 /\ evaluated = stats

\* C11: for every snapshot, checkThresholds of src/main.go prints only warnings,
\* in the fixed order load, memory, disk, network, and at most one warning per
\* metric: the places of the printed lines strictly increase.
C11_FixedOrder ==
    (variant = "main" /\ Evaluated) =>
        /\ \A i \in 1..Len(out) : Rank(out[i]) \in 1..4
        /\ \A i, j \in 1..Len(out) : i < j => Rank(out[i]) < Rank(out[j])

\* all four warnings are printed for one snapshot
C11_Witness ==
    variant = "main" /\ Evaluated /\ Len(out) = 4

\* the metric at place m of snapshot st strictly exceeds its threshold
\* (load > 30, memory > 0.80, disk > 0.90, network > 0.90), in exact arithmetic
Exceeds(st, m) ==
    CASE m = 1 -> st.LoadAverage.num > 30 * st.LoadAverage.den
      [] m = 2 -> st.TotalMemory > 0 /\ 100 * st.UsedMemory > 80 * st.TotalMemory
      [] m = 3 -> st.TotalDisk > 0 /\ 100 * st.UsedDisk > 90 * st.TotalDisk
      [] m = 4 -> st.NetworkBandwidth > 0 /\ 100 * st.NetworkUsage > 90 * st.NetworkBandwidth

TotalOf(st, m) ==
    CASE m = 2 -> st.TotalMemory
      [] m = 3 -> st.TotalDisk
      [] m = 4 -> st.NetworkBandwidth

\* the used amount of the metric at place m
UsedOf(st, m) ==
    CASE m = 2 -> st.UsedMemory
      [] m = 3 -> st.UsedDisk
      [] m = 4 -> st.NetworkUsage

\* C13: for every snapshot, a metric whose total is 0 never produces its warning,
\* whatever its used amount is, and the other metrics are still checked: each
\* of them that exceeds its threshold still has its warning printed.
C13_ZeroTotalSuppresses ==
    (variant = "main" /\ Evaluated) =>
        \A m \in 2..4 :
            TotalOf(stats, m) = 0 =>
                /\ ~Warns(out, m)
                /\ \A n \in (1..4) \ {m} : Exceeds(stats, n) => Warns(out, n)

\* a disk total of 0 with a used amount above 0: no disk warning, and the memory
\* warning is printed
C13_Witness ==
    /\ variant = "main" /\ Evaluated
    /\ stats.TotalDisk = 0 /\ stats.UsedDisk > 0 /\ ~Warns(out, 3)
    /\ Warns(out, 2)

\* C14: a snapshot with a used amount above its total (total > 0) is still
\* evaluated by checkThresholds of src/main.go: the evaluation can always be
\* carried out, and the warning of the violating metric is printed.
C14_OverfullStillEvaluated ==
    /\ (variant = "main" /\ pc = "reporting") => ENABLED Report
    /\ (variant = "main" /\ Evaluated) =>
            \A m \in 2..4 :
                (TotalOf(stats, m) > 0 /\ UsedOf(stats, m) > TotalOf(stats, m))
                    => Warns(out, m)

\* the used disk space is above the total one and the disk warning is printed
C14_Witness ==
    /\ variant = "main" /\ Evaluated
    /\ stats.TotalDisk > 0 /\ stats.UsedDisk > stats.TotalDisk /\ Warns(out, 3)

\* the poll of the known answer is past its fetch
Fetched == given # NoResp /\ pc # "fetching" /\ Len(hist) = 1

\* the fetch of the known answer gave a snapshot
Accepted == Fetched /\ Last(hist)

\* the fields of the response line: the payload without the white space around
\* it, cut at the commas
FieldsOf(resp) == Split(TrimSpace(resp.body))

\* the number a field of digits stands for
NumberOf(field) == ParseUint(field).val

\* The statement of C15 as the claim words it: with six fields the bandwidth
\* is field 5 and the usage equals the bandwidth; with a seventh field the
\* usage is that field and the bandwidth is field 5.
C15_ReferencePolicy ==
    (variant = "main" /\ Accepted) =>
        LET values == FieldsOf(given)
        IN  /\ stats.NetworkBandwidth = NumberOf(values[6])
            /\ stats.NetworkUsage = IF Len(values) = 6 THEN stats.NetworkBandwidth
                                    ELSE NumberOf(values[7])

\* C15: for an accepted response line, fetchServerStats of src/main.go sets both
\* network fields to 0 when the line has exactly six fields, and with a seventh
\* field present sets the usage to that field and the bandwidth to field 5.
C15_NetworkFields ==
    (variant = "main" /\ Accepted) =>
        LET values == FieldsOf(given)
        IN  IF Len(values) = 6
            THEN stats.NetworkBandwidth = 0 /\ stats.NetworkUsage = 0
            ELSE /\ stats.NetworkBandwidth = NumberOf(values[6])
                 /\ stats.NetworkUsage = NumberOf(values[7])

\* a six-field line with a bandwidth of 500 is accepted with both network fields 0
C15_Witness ==
    /\ variant = "main" /\ Accepted
    /\ Len(FieldsOf(given)) = 6 /\ NumberOf(FieldsOf(given)[6]) = 500
    /\ stats.NetworkBandwidth = 0 /\ stats.NetworkUsage = 0

\* the response reaches the parser: it arrives whole with the success status
Delivered(resp) == resp.conn /\ resp.sent /\ resp.status = StatusOK /\ ~resp.broken

\* the first six fields of a line of six fields or more
FirstSix(values) == SubSeq(values, 1, 6)

HasNegativeField(resp) ==
    /\ Delivered(resp)
    /\ Len(FieldsOf(resp)) >= 6
    /\ \E i \in 1..6 :
          LET f == FieldsOf(resp)[i]
          IN  f # <<>> /\ Head(f) = "-" /\ ParseFloat(f).ok

\* C17: in src/main.go and src/unnamed/part_002 a response line with a negative
\* field yields a fetch error, never a snapshot.
C17_NonNegativeOnly ==
    (variant \in {"main", "p002"} /\ Fetched /\ HasNegativeField(given)) => ~Last(hist)

\* C18: whenever the loop is not in the fetcher, no connection is open: every
\* call of the fetcher has released its connection by the time it returns.
C18_ConnectionReleased ==
    pc # "fetching" => conns = 0

\* C19: in src/main.go the warnings printed in a tick are those of the evaluator
\* applied to the snapshot of that tick's response, whatever fetches preceded it
\* and whatever the counter was; a tick whose fetch failed keeps no snapshot and
\* prints no warning.
C19_WarningsOfThisTickOnly ==
    (variant = "main" /\ pc = "idle" /\ hist # <<>>) =>
        IF Last(hist)
        THEN out = checkThresholds_main(stats) /\ evaluated = stats
        ELSE stats = NoStats /\ \A i \in 1..Len(out) : Rank(out[i]) = 0

\* warnings are printed in a tick that follows two failed ones
C19_Witness ==
    /\ variant = "main" /\ pc = "idle"
    /\ hist = <<FALSE, FALSE, TRUE>>
    /\ Len(out) >= 3

\* C20: in src/unnamed/part_001 no network warning is printed for an accepted
\* response line.
C20_NetworkCheckSuppressed ==
    (variant = "p001" /\ Accepted /\ pc = "idle") => ~Warns(out, 4)

ValidSixFields(resp) ==
    /\ Delivered(resp)
    /\ Len(FieldsOf(resp)) = 6
    /\ ParseFloat(FieldsOf(resp)[1]).ok /\ ParseFloat(FieldsOf(resp)[1]).num >= 0
    /\ \A i \in 2..6 : ParseUint(FieldsOf(resp)[i]).ok

\* C22: in src/unnamed/part_003 a 200 response whose body is a valid six-field
\* line yields a snapshot, whether or not the body ends with a newline.
C22_FinalNewlineOptional ==
    (variant = "p003" /\ Fetched /\ ValidSixFields(given)) => Last(hist)

\* the free amount a disk warning may report at most for snapshot st: its total
MaxFreeDisk(st) == Round(st.TotalDisk, bytesInMb)

\* the free amount a network warning may report at most: the whole bandwidth
MaxFreeNetwork(st) == Round(st.NetworkBandwidth * 8, 1000000)

\* C23: in src/main.go and src/unnamed/part_000 the free amount that a printed
\* disk or network warning reports is never larger than the total.
C23_FreeAmountWithinTotal ==
    (variant \in {"main", "p000"} /\ Accepted /\ Evaluated) =>
        \A i \in 1..Len(out) :
            /\ Rank(out[i]) = 3 => out[i].val <= MaxFreeDisk(stats)
            /\ Rank(out[i]) = 4 => out[i].val <= MaxFreeNetwork(stats)

=========================================================================
